---------------------------- MODULE Spec2Model ----------------------------
(***************************************************************************)
(* The `verify` task of buidler-etherscan                                  *)
(* (packages/buidler-etherscan/src/index.ts).                              *)
(*                                                                         *)
(* One run of the task is modelled: the task arguments, the buidler config *)
(* and the code stored on chain are fixed by Init; every `await` of the    *)
(* function is one action.  `calls` records, in order, the collaborators   *)
(* the run has invoked; `output` records what it printed.                  *)
(***************************************************************************)
EXTENDS Integers, Sequences, FiniteSets, TLC

\* ------------------------------------------------------------------ bounds
MaxMajor == 1
MaxMinor == 5
MaxPatch == 12
MaxByte  == 2
MaxArgs  == 1

\* ------------------------------------------------------------- value sets
\* An optional value is a sequence of length <= 1: <<>> is undefined / null.
None == <<>>
Some(x) == <<x>>

\* API keys: undefined, "", "  ", " k ", "k".
ApiKeys == { None, Some(<<>>), Some(<<" ", " ">>), Some(<<" ", "k", " ">>), Some(<<"k">>) }

NetworkNames == { "buidlerevm", "mainnet" }

Version(ma, mi, pa) == [major |-> ma, minor |-> mi, patch |-> pa]

\* Configured compiler versions: patches 0 and 10..MaxPatch around the 0.4.11 limit.
ConfigVersions ==
  { Version(ma, mi, pa) : ma \in 0..MaxMajor, mi \in 3..MaxMinor, pa \in {0} \cup 10..MaxPatch }

\* The numeric order on (major, minor, patch).
VersionLess(a, b) ==
  \/ a.major < b.major
  \/ a.major = b.major /\ a.minor < b.minor
  \/ a.major = b.major /\ a.minor = b.minor /\ a.patch < b.patch

VersionLeq(a, b) == a = b \/ VersionLess(a, b)

\* Lists of constructor arguments: the positional ones hold "p", a module's hold "m".
ListsOf(x) == { [i \in 1..n |-> x] : n \in 0..MaxArgs }
PositionalLists == ListsOf("p")
ModuleLists == ListsOf("m")

\* What a constructor-arguments module exports: a list, or something else.
ModuleExports ==
  { [isArray |-> TRUE, items |-> l] : l \in ModuleLists } \cup { [isArray |-> FALSE, items |-> <<>>] }

\* Bytecode: the executable part (a byte sequence) and the trailing metadata
\* block (absent, content hash only, or with the exact compiler version).
NoVersion == Version(0, 0, 0)
Metadatas ==
  { [kind |-> "absent", version |-> NoVersion], [kind |-> "hash", version |-> NoVersion],
    [kind |-> "version", version |-> Version(0, 5, 0)],
    [kind |-> "version", version |-> Version(0, 4, 12)] }
Bodies == { <<>> } \cup { <<b>> : b \in 1..MaxByte }
Bytecodes == [body : Bodies, metadata : Metadatas]
BytecodeIsEmpty(b) == b.body = <<>> /\ b.metadata.kind = "absent"

ContractNames == { "A", "B" }
\* The deployed (runtime) bytecode body of each compiled contract.
CompilerOutputs == [ContractNames -> Bodies \ { <<>> }]

\* ---------------------------------------------------------- error messages
ErrNone == "none"
ErrApiKey == "Please provide an Etherscan API token via buidler config."
ErrNetwork == "Please select a network supported by Etherscan."
ErrAddress == "is an invalid address."
ErrUnsupportedVersion == "Etherscan only supports compiler versions 0.4.11 and higher."
ErrNotAList == "The module doesn't export a list."
ErrImportFailed == "Importing the module for the constructor arguments list failed."
ErrProber == "NetworkProberError. The selected network is"
ErrEndpointOther == "getEtherscanEndpoint: other error"
ErrNoBytecode == "has no bytecode. Is the contract deployed to this network?"
ErrVersionNotInRange == "The bytecode retrieved could not have been generated by the selected compiler."
ErrCompile == "compile: error"
ErrAmbiguous == "AmbiguousArtifactMatch"
ErrNotFound == "The contract was not found among the ones present in this project."
ErrArgLength == "The constructor has n parameters but m arguments were provided instead."
ErrArgType == "Value cannot be encoded for the parameter."
ErrEncodeOther == "encodeDeploy: other error"
ErrTypeError == "TypeError"

MsgSubmitted == "Successfully submitted contract for verification on etherscan. Waiting for verification result..."
MsgVerified == "Successfully verified contract on etherscan"


\* ------------------------------------------------------- the local checks
\* String.prototype.trim: the string without its leading and trailing blanks.
RECURSIVE TrimStart(_)
TrimStart(s) == IF s # <<>> /\ Head(s) = " " THEN TrimStart(Tail(s)) ELSE s

RECURSIVE TrimEnd(_)
TrimEnd(s) ==
  IF s # <<>> /\ s[Len(s)] = " " THEN TrimEnd(SubSeq(s, 1, Len(s) - 1)) ELSE s

trim(s) == TrimEnd(TrimStart(s))

\* Mutant: the key is only tested for undefined and for the empty string.
ApiKeyMissing_NoTrim(key) == key = None \/ key[1] = <<>>

\* etherscan.apiKey === undefined || etherscan.apiKey.trim() === ""
ApiKeyMissing(key) == key = None \/ trim(key[1]) = <<>>

\* Mutant: the limit is taken to be 0.4.12.
EtherscanUnsupported_OffByOne(v) ==
  \/ v.major = 0 /\ v.minor = 4 /\ v.patch <= 11
  \/ v.major = 0 /\ v.minor < 4

\* Mutant: only the 0.3.x and older compilers are rejected.
EtherscanUnsupported_NoPatch(v) == v.major = 0 /\ v.minor < 4

\* The versions Etherscan does not support: the condition of the `if`.
EtherscanUnsupported(v) ==
  \/ v.major = 0 /\ v.minor = 4 /\ v.patch < 11
  \/ v.major = 0 /\ v.minor < 4

\* Mutant: the positional list is used whether a module is named or not.
ResolvedArguments_Positional(module, exported, list) == list

\* The constructor arguments after a successful resolution: the module's
\* export when a module is named, the positional list otherwise.
ResolvedArguments(module, exported, list) ==
  IF module # None THEN exported.items ELSE list

\* --------------------------------------------------- the version inferrer
\* A range [lower, upper) of versions, or the single version `lower` (EXACT).
Range(type, lo, hasUpper, up) ==
  [inferralType |-> type, lower |-> lo, hasUpper |-> hasUpper, upper |-> up]

\* The range of compilers that can have produced a bytecode, from its metadata.
inferSolcVersion(b) ==
  CASE b.metadata.kind = "version" ->
         Range("EXACT", b.metadata.version, FALSE, b.metadata.version)
    [] b.metadata.kind = "hash" ->
         Range("METADATA", Version(0, 4, 7), TRUE, Version(0, 5, 9))
    [] OTHER ->
         Range("BYTECODE_ERA", Version(0, 0, 0), TRUE, Version(0, 4, 7))

isIncluded(range, v) ==
  IF range.inferralType = "EXACT"
  THEN v = range.lower
  ELSE VersionLeq(range.lower, v) /\ (range.hasUpper => VersionLess(v, range.upper))

\* Mutant: the range is not looked at.
RangeCheckPasses_Always(range, v) == TRUE

\* The condition under which verify goes on to compile.
RangeCheckPasses(range, v) == isIncluded(range, v)

\* ----------------------------------------------------------- the prober
\* The code at the address as the prober hands it over: null when the node
\* reports no code.
retrieveContractBytecode(code) == IF BytecodeIsEmpty(code) THEN None ELSE Some(code)

\* Mutant: the bytecode is used without the null test.
HasNoBytecode_Never(retrieved) == FALSE

\* deployedContractBytecode === null
HasNoBytecode(retrieved) == retrieved = None

\* ----------------------------------------------------------- the matcher
\* The compiled contracts whose runtime bytecode is the deployed one, the
\* metadata block left out of the comparison.
MatchingContracts(contracts, deployed) ==
  { n \in DOMAIN contracts : contracts[n] = deployed.body }

\* no candidate: null; one: its contract information; several: an error
\* naming all of them.
lookupMatchingBytecode(contracts, deployed) ==
  LET m == MatchingContracts(contracts, deployed) IN
  [ kind  |-> IF m = {} THEN "null" ELSE IF Cardinality(m) = 1 THEN "match" ELSE "throw",
    names |-> m ]

\* Mutant: a null result is not tested for.
LookupContinues_NoNullTest(result) == result.kind # "throw"

\* Mutant: an error of the matcher is swallowed and a matching contract used.
LookupContinues_Swallow(result) == result.kind # "null"

\* verify goes on to the constructor arguments when the lookup neither threw
\* nor returned null.
LookupContinues(result) == result.kind = "match"

\* ------------------------------------------------------------------ state
VARIABLES
  apiKey,                   \* config.etherscan.apiKey
  networkName,              \* network.name
  addressIsValid,           \* what isAddress(address) answers
  solcVersionConfig,        \* getVersionNumber(config.solc.version)
  constructorArgsModule,    \* the constructorArgs option
  constructorArgsList,      \* the positional constructorArguments
  chainCode,                \* the code stored at the address
  pc,                       \* where the run is
  error,                    \* the message of the error the run ended with
  errorParent,              \* the message of that error's parent, if any
  errorNames,               \* the contracts an error names
  imported,                 \* what the import of the module did
  constructorArguments,
  deployedContractBytecode,
  solcVersionRange,
  compilerOutput,
  contractInformation,
  encodedArguments,         \* the arguments handed to encodeDeploy
  request,
  calls,                    \* the collaborators invoked so far, in order
  output                    \* the lines printed so far

inputs ==
  << apiKey, networkName, addressIsValid, solcVersionConfig, constructorArgsModule,
     constructorArgsList, chainCode >>

locals ==
  << imported, constructorArguments, deployedContractBytecode, solcVersionRange,
     compilerOutput, contractInformation, encodedArguments, request >>

vars == << inputs, locals, pc, error, errorParent, errorNames, calls, output >>

NotImported == [status |-> "none", isArray |-> FALSE, items |-> <<>>]

Init ==
  /\ apiKey \in ApiKeys
  /\ networkName \in NetworkNames
  /\ addressIsValid \in BOOLEAN
  /\ solcVersionConfig \in ConfigVersions
  /\ constructorArgsModule \in { None, Some("arguments.js") }
  /\ constructorArgsList \in PositionalLists
  /\ chainCode \in Bytecodes
  /\ pc = "apiKey"
  /\ error = ErrNone
  /\ errorParent = ErrNone
  /\ errorNames = {}
  /\ imported = NotImported
  /\ constructorArguments = None
  /\ deployedContractBytecode = None
  /\ solcVersionRange = None
  /\ compilerOutput = None
  /\ contractInformation = None
  /\ encodedArguments = None
  /\ request = None
  /\ calls = <<>>
  /\ output = <<>>

\* ---------------------------------------------------------------- actions
\* throw new BuidlerPluginError(pluginName, message, parent): the run ends.
Throw(message, parent, names) ==
  /\ pc' = "failed"
  /\ error' = message
  /\ errorParent' = parent
  /\ errorNames' = names

Continue(next) ==
  /\ pc' = next
  /\ UNCHANGED << error, errorParent, errorNames >>

Called(fns) == calls' = calls \o fns

\* The Etherscan API key is read from the config and must not be blank.
CheckApiKey ==
  /\ pc = "apiKey"
  /\ Called(<<"getDefaultEtherscanConfig">>)
  /\ IF ApiKeyMissing(apiKey) THEN Throw(ErrApiKey, ErrNone, {}) ELSE Continue("network")
  /\ UNCHANGED << inputs, locals, output >>

CheckNetwork ==
  /\ pc = "network"
  /\ IF networkName = "buidlerevm" THEN Throw(ErrNetwork, ErrNone, {}) ELSE Continue("address")
  /\ UNCHANGED << inputs, locals, calls, output >>

CheckAddress ==
  /\ pc = "address"
  /\ Called(<<"isAddress">>)
  /\ IF ~addressIsValid THEN Throw(ErrAddress, ErrNone, {}) ELSE Continue("solcVersion")
  /\ UNCHANGED << inputs, locals, output >>

CheckSolcVersion ==
  /\ pc = "solcVersion"
  /\ Called(<<"getVersionNumber">>)
  /\ IF EtherscanUnsupported(solcVersionConfig)
     THEN Throw(ErrUnsupportedVersion, ErrNone, {})
     ELSE Continue("constructorArgs")
  /\ UNCHANGED << inputs, locals, output >>

\* What `await import(constructorArgsModule)` can do: fail, or give the export.
ImportOutcomes ==
  { [status |-> "failed", isArray |-> FALSE, items |-> <<>>] } \cup
  { [status |-> "ok", isArray |-> e.isArray, items |-> e.items] : e \in ModuleExports }

\* The constructor arguments: the export of the module when the option names
\* one, the positional list otherwise.  The error thrown inside the `try` for
\* an export that is no list is caught by the `catch` of the same statement.
ResolveConstructorArguments ==
  /\ pc = "constructorArgs"
  /\ IF constructorArgsModule # None
     THEN \E o \in ImportOutcomes :
            /\ imported' = o
            /\ Called(<<"import">>)
            /\ IF o.status = "failed"
               THEN /\ Throw(ErrImportFailed, "import error", {})
                    /\ UNCHANGED constructorArguments
               ELSE IF ~o.isArray
               THEN /\ Throw(ErrImportFailed, ErrNotAList, {})
                    /\ UNCHANGED constructorArguments
               ELSE /\ constructorArguments' =
                         Some(ResolvedArguments(constructorArgsModule, o, constructorArgsList))
                    /\ Continue("endpoint")
     ELSE /\ constructorArguments' =
               Some(ResolvedArguments(constructorArgsModule, imported, constructorArgsList))
          /\ Continue("endpoint")
          /\ UNCHANGED << imported, calls >>
  /\ UNCHANGED << inputs, deployedContractBytecode, solcVersionRange, compilerOutput,
                  contractInformation, encodedArguments, request, output >>

GetEtherscanEndpoint ==
  /\ pc = "endpoint"
  /\ Called(<<"getEtherscanEndpoint">>)
  /\ \E o \in { "ok", "NetworkProberError", "other" } :
       IF o = "ok" THEN Continue("bytecode")
       ELSE IF o = "NetworkProberError" THEN Throw(ErrProber, "NetworkProberError", {})
       ELSE Throw(ErrEndpointOther, ErrNone, {})
  /\ UNCHANGED << inputs, locals, output >>

RetrieveBytecode ==
  /\ pc = "bytecode"
  /\ Called(<<"retrieveContractBytecode">>)
  /\ deployedContractBytecode' = retrieveContractBytecode(chainCode)
  /\ IF HasNoBytecode(deployedContractBytecode')
     THEN Throw(ErrNoBytecode, ErrNone, {})
     ELSE Continue("infer")
  /\ UNCHANGED << inputs, imported, constructorArguments, solcVersionRange, compilerOutput,
                  contractInformation, encodedArguments, request, output >>

\* The range is inferred and the configured version looked up in it.  A null
\* bytecode cannot be read by the inferrer.
InferSolcVersion ==
  /\ pc = "infer"
  /\ IF deployedContractBytecode = None
     THEN /\ Called(<<"inferSolcVersion">>)
          /\ Throw(ErrTypeError, ErrNone, {})
          /\ UNCHANGED solcVersionRange
     ELSE /\ Called(<<"inferSolcVersion", "isIncluded">>)
          /\ solcVersionRange' = Some(inferSolcVersion(deployedContractBytecode[1]))
          /\ IF RangeCheckPasses(solcVersionRange'[1], solcVersionConfig)
             THEN Continue("compile")
             ELSE Throw(ErrVersionNotInRange, ErrNone, {})
  /\ UNCHANGED << inputs, imported, constructorArguments, deployedContractBytecode,
                  compilerOutput, contractInformation, encodedArguments, request, output >>

Compile ==
  /\ pc = "compile"
  /\ Called(<<"compile">>)
  /\ \E o \in { None } \cup { Some(c) : c \in CompilerOutputs } :
       /\ compilerOutput' = o
       /\ IF o = None THEN Throw(ErrCompile, ErrNone, {}) ELSE Continue("lookup")
  /\ UNCHANGED << inputs, imported, constructorArguments, deployedContractBytecode,
                  solcVersionRange, contractInformation, encodedArguments, request, output >>

LookupMatchingBytecode ==
  /\ pc = "lookup"
  /\ Called(<<"lookupMatchingBytecode">>)
  /\ LET result == lookupMatchingBytecode(compilerOutput[1], deployedContractBytecode[1]) IN
       IF LookupContinues(result)
       THEN /\ contractInformation' =
                 IF result.names = {} THEN None ELSE Some(CHOOSE n \in result.names : TRUE)
            /\ Continue("encode")
       ELSE /\ Throw(IF result.kind = "throw" THEN ErrAmbiguous ELSE ErrNotFound, ErrNone,
                     IF result.kind = "throw" THEN result.names ELSE {})
            /\ UNCHANGED contractInformation
  /\ UNCHANGED << inputs, imported, constructorArguments, deployedContractBytecode,
                  solcVersionRange, compilerOutput, encodedArguments, request, output >>

\* The constructor arguments are encoded against the ABI of the contract
\* found, whose constructor takes `n` parameters.
EncodeDeploy ==
  /\ pc = "encode"
  /\ IF contractInformation = None
     THEN /\ Throw(ErrTypeError, ErrNone, {})
          /\ UNCHANGED << encodedArguments, calls >>
     ELSE /\ Called(<<"encodeDeploy">>)
          /\ encodedArguments' = constructorArguments
          /\ \E n \in 0..MaxArgs, o \in { "ok", "type", "other" } :
               IF Len(constructorArguments[1]) # n
               THEN Throw(ErrArgLength, ErrNone, {})
               ELSE IF o = "type" THEN Throw(ErrArgType, ErrNone, {})
               ELSE IF o = "other" THEN Throw(ErrEncodeOther, ErrNone, {})
               ELSE Continue("request")
  /\ UNCHANGED << inputs, imported, constructorArguments, deployedContractBytecode,
                  solcVersionRange, compilerOutput, contractInformation, request, output >>

BuildRequest ==
  /\ pc = "request"
  /\ Called(<<"getLongVersion", "toRequest">>)
  /\ request' = Some([ apiKey |-> apiKey[1],
                       contractName |-> contractInformation[1],
                       compilerVersion |-> solcVersionConfig,
                       constructorArguments |-> encodedArguments[1] ])
  /\ Continue("report")
  /\ UNCHANGED << inputs, imported, constructorArguments, deployedContractBytecode,
                  solcVersionRange, compilerOutput, contractInformation, encodedArguments,
                  output >>

\* The service module is imported; the request is not sent and the status is
\* not asked for (both calls are commented out), and both messages are printed.
ReportSuccess ==
  /\ pc = "report"
  /\ output' = output \o << MsgSubmitted, MsgVerified >>
  /\ Continue("done")
  /\ UNCHANGED << inputs, locals, calls >>

Next ==
  \/ CheckApiKey
  \/ CheckNetwork
  \/ CheckAddress
  \/ CheckSolcVersion
  \/ ResolveConstructorArguments
  \/ GetEtherscanEndpoint
  \/ RetrieveBytecode
  \/ InferSolcVersion
  \/ Compile
  \/ LookupMatchingBytecode
  \/ EncodeDeploy
  \/ BuildRequest
  \/ ReportSuccess

Spec == Init /\ [][Next]_vars

\* ----------------------------------------------------------------- claims
Invoked(fn) == \E i \in 1..Len(calls) : calls[i] = fn

\* Every invocation of `later` comes after an invocation of `earlier`.
OnlyAfter(later, earlier) ==
  \A j \in 1..Len(calls) : calls[j] = later => \E i \in 1..(j - 1) : calls[i] = earlier

Terminated == pc \in { "failed", "done" }

Printed(msg) == \E i \in 1..Len(output) : output[i] = msg

MinimumVersion == Version(0, 4, 11)

ApiKeyDefinedAndNotBlank ==
  apiKey # None /\ \E i \in 1..Len(apiKey[1]) : apiKey[1][i] # " "

LocalInputsValid ==
  ApiKeyDefinedAndNotBlank /\ networkName # "buidlerevm" /\ addressIsValid

\* C1: compile and lookupMatchingBytecode are invoked only after the range
\* returned by inferSolcVersion was checked with isIncluded(configured version)
\* and the check returned true; when it returns false the run ends with an
\* error and neither of the two is invoked.
C1_MatchingOnlyAfterRangeCheck ==
  /\ \A fn \in { "compile", "lookupMatchingBytecode" } :
       /\ OnlyAfter(fn, "isIncluded")
       /\ Invoked(fn) =>
            /\ solcVersionRange = Some(inferSolcVersion(deployedContractBytecode[1]))
            /\ isIncluded(solcVersionRange[1], solcVersionConfig)
  /\ OnlyAfter("isIncluded", "inferSolcVersion")
  /\ (solcVersionRange # None /\ ~isIncluded(solcVersionRange[1], solcVersionConfig)) =>
       /\ pc = "failed" /\ error # ErrNone
       /\ ~Invoked("compile") /\ ~Invoked("lookupMatchingBytecode")

C1_Witness ==
  /\ Invoked("compile") /\ Invoked("lookupMatchingBytecode")
  /\ solcVersionRange # None /\ solcVersionRange[1].inferralType = "METADATA"

\* C2 as stated, at the case it names: configured version 0.4.10 against a
\* deployed bytecode whose inferred range is Exact 0.5.0 makes verify end with
\* the NoCompilerVersionInRange error and no other.  The run is granted a
\* valid API key, network and address.
C2_NotInRangeAlwaysReported ==
  ( /\ Terminated /\ LocalInputsValid
    /\ solcVersionConfig = Version(0, 4, 10)
    /\ chainCode.body # <<>>
    /\ inferSolcVersion(chainCode) = Range("EXACT", Version(0, 5, 0), FALSE, Version(0, 5, 0))
    /\ ~isIncluded(inferSolcVersion(chainCode), solcVersionConfig) )
  => error = ErrVersionNotInRange

\* C2 amended: a run that gets as far as the range check with a configured
\* version outside the inferred range ends with the NoCompilerVersionInRange
\* error; a configured version below 0.4.11 (0.4.10 against Exact 0.5.0) does
\* not get that far, it ends with the unsupported-version error.
C2_NotInRangeReportedWhenReached ==
  /\ ( /\ Terminated /\ Invoked("isIncluded")
       /\ ~isIncluded(inferSolcVersion(chainCode), solcVersionConfig) )
     => error = ErrVersionNotInRange
  /\ error = ErrVersionNotInRange =>
       /\ ~isIncluded(inferSolcVersion(chainCode), solcVersionConfig)
       /\ ~VersionLess(solcVersionConfig, MinimumVersion)
  /\ (Terminated /\ LocalInputsValid /\ VersionLess(solcVersionConfig, MinimumVersion)) =>
       /\ error = ErrUnsupportedVersion
       /\ ~Invoked("inferSolcVersion")

C2_Witness ==
  /\ pc = "failed" /\ error = ErrVersionNotInRange
  /\ solcVersionRange = Some(Range("EXACT", Version(0, 5, 0), FALSE, Version(0, 5, 0)))
  /\ solcVersionConfig = Version(0, 4, 11)

\* C3: when more than one compiled contract matches the deployed bytecode,
\* verify ends with an ambiguous-match error naming all of them, and neither
\* encodes constructor arguments nor builds a request.
C3_AmbiguousMatchEndsTheRun ==
  ( /\ Invoked("lookupMatchingBytecode")
    /\ Cardinality(MatchingContracts(compilerOutput[1], deployedContractBytecode[1])) > 1 )
  => /\ pc = "failed" /\ error = ErrAmbiguous
     /\ errorNames = MatchingContracts(compilerOutput[1], deployedContractBytecode[1])
     /\ ~Invoked("encodeDeploy") /\ ~Invoked("toRequest")
     /\ contractInformation = None /\ request = None

C3_Witness ==
  /\ Invoked("lookupMatchingBytecode") /\ pc = "failed"
  /\ compilerOutput # None /\ compilerOutput[1]["A"] = compilerOutput[1]["B"]
  /\ errorNames = ContractNames

\* C4: when lookupMatchingBytecode returns null, verify ends with the error
\* 'The contract was not found among the ones present in this project'; no
\* constructor arguments are encoded, no request is built, nothing is printed.
C4_NoMatchEndsTheRun ==
  ( /\ Invoked("lookupMatchingBytecode")
    /\ lookupMatchingBytecode(compilerOutput[1], deployedContractBytecode[1]).kind = "null" )
  => /\ pc = "failed" /\ error = ErrNotFound
     /\ ~Invoked("encodeDeploy") /\ ~Invoked("toRequest")
     /\ encodedArguments = None /\ request = None /\ output = <<>>

C4_Witness ==
  /\ Invoked("lookupMatchingBytecode") /\ error = ErrNotFound
  /\ MatchingContracts(compilerOutput[1], deployedContractBytecode[1]) = {}

C6_SuccessOnlyAfterSubmission ==
  /\ Printed(MsgSubmitted) => Invoked("toRequest") /\ Invoked("verifyContract")
  /\ Printed(MsgVerified) => Invoked("getVerificationStatus")

\* C7: the arguments given to encodeDeploy are the list the constructorArgs
\* module exports when the option is passed, whatever the positional list
\* holds, and the positional list when it is not.
C7_ModuleOverridesPositional ==
  Invoked("encodeDeploy") =>
    IF constructorArgsModule # None
    THEN /\ imported.status = "ok" /\ imported.isArray
         /\ encodedArguments = Some(imported.items)
    ELSE encodedArguments = Some(constructorArgsList)

C7_Witness ==
  /\ Invoked("encodeDeploy") /\ constructorArgsModule # None
  /\ constructorArgsList = <<"p">> /\ encodedArguments = Some(<<"m">>)

\* C8: verify ends with the 'Etherscan only supports compiler versions 0.4.11
\* and higher' error exactly for the configured versions lower than 0.4.11 in
\* the numeric order on (major, minor, patch), in the runs that get to the
\* version check (valid API key, network and address).
C8_UnsupportedIffBelowMinimum ==
  /\ error = ErrUnsupportedVersion => VersionLess(solcVersionConfig, MinimumVersion)
  /\ (Terminated /\ LocalInputsValid) =>
       (error = ErrUnsupportedVersion <=> VersionLess(solcVersionConfig, MinimumVersion))

C8_Witness ==
  /\ pc = "failed" /\ error = ErrUnsupportedVersion
  /\ solcVersionConfig = Version(0, 4, 10)

\* C9: when the constructorArgs module is imported without failure but exports
\* no list, verify ends with the error 'The module doesn't export a list';
\* 'Importing the module for the constructor arguments list failed.' is the
\* outcome only when the import itself fails.
C9_NotAListReported ==
  /\ (Terminated /\ imported.status = "ok" /\ ~imported.isArray) => error = ErrNotAList
  /\ error = ErrImportFailed => imported.status = "failed"

\* C10: no network access and no compilation unless the local checks passed
\* in the order API key, network, address, compiler version, constructor
\* arguments; the first check that fails ends the run with its own error and
\* no later step is executed.
C10_LocalChecksFirst ==
  /\ \A fn \in { "getEtherscanEndpoint", "retrieveContractBytecode", "compile" } :
       Invoked(fn) =>
         /\ LocalInputsValid
         /\ ~VersionLess(solcVersionConfig, MinimumVersion)
         /\ constructorArguments # None
         /\ constructorArgsModule # None => imported.status = "ok" /\ imported.isArray
  /\ Terminated =>
       IF ~ApiKeyDefinedAndNotBlank
         THEN error = ErrApiKey /\ calls = <<"getDefaultEtherscanConfig">>
       ELSE IF networkName = "buidlerevm"
         THEN error = ErrNetwork /\ calls = <<"getDefaultEtherscanConfig">>
       ELSE IF ~addressIsValid
         THEN error = ErrAddress /\ calls = <<"getDefaultEtherscanConfig", "isAddress">>
       ELSE IF VersionLess(solcVersionConfig, MinimumVersion)
         THEN /\ error = ErrUnsupportedVersion
              /\ calls = <<"getDefaultEtherscanConfig", "isAddress", "getVersionNumber">>
       ELSE IF imported.status = "failed" \/ (imported.status = "ok" /\ ~imported.isArray)
         THEN /\ error \in { ErrImportFailed, ErrNotAList }
              /\ calls = <<"getDefaultEtherscanConfig", "isAddress", "getVersionNumber", "import">>
       ELSE Invoked("getEtherscanEndpoint")

C10_Witness ==
  /\ Invoked("getEtherscanEndpoint") /\ Invoked("compile")
  /\ constructorArgsModule # None

=============================================================================
